---------------------------- MODULE Spec2Model ----------------------------
(***************************************************************************)
(* Model of the statical in-memory HTTP file system (package fs).          *)
(*                                                                         *)
(* A registered zip archive is unpacked by New into the flat map Files,    *)
(* missing ancestor directories are synthesized, the parent -> children    *)
(* index Dirs is built and sorted, and Open hands out httpFile handles     *)
(* with a private read offset and a private Readdir cursor.                *)
(*                                                                         *)
(* Strings are modelled as sequences of one-character strings, so that     *)
(* path.Dir, path.Base, path.Join, path.Clean, strings.Replace and         *)
(* sort.Strings are computed character by character as the Go library      *)
(* computes them.                                                          *)
(***************************************************************************)
EXTENDS Integers, Sequences, FiniteSets, TLC

(***************************************************************************)
(* Bounds of the model.                                                    *)
(***************************************************************************)
\* largest number of records in a registered archive
MaxRecords == 2
\* largest number of handles opened on the tree
MaxHandles == 2
\* largest len(p) handed to Read and largest count handed to Readdir
MaxCount == 2
\* largest |offset| handed to Seek, and how far past the end Seek is followed
MaxOffset == 1

(***************************************************************************)
(* Strings.                                                                *)
(***************************************************************************)
Slash == "/"
Dot == "."

\* byte value of a character, the order sort.Strings compares by
Rank(c) ==
  CASE c = "." -> 46
    [] c = "/" -> 47
    [] c = "a" -> 97
    [] c = "b" -> 98
    [] c = "c" -> 99
    [] c = "d" -> 100
    [] c = "e" -> 101
    [] c = "h" -> 104
    [] c = "i" -> 105
    [] c = "l" -> 108
    [] c = "m" -> 109
    [] c = "n" -> 110
    [] c = "t" -> 116
    [] c = "x" -> 120
    [] OTHER -> 127

\* s[i:] of Go, i counted from 0
Drop(s, i) == SubSeq(s, i + 1, Len(s))

\* s[:i] of Go
Take(s, i) == SubSeq(s, 1, i)

\* strings.LastIndex(s, "/"), counted from 0, -1 when there is none
LastSlash(s) ==
  LET idx == {i \in 1..Len(s) : s[i] = Slash}
  IN  IF idx = {} THEN -1 ELSE (CHOOSE i \in idx : \A j \in idx : j <= i) - 1

\* Go's string comparison a < b: bytewise lexicographic
RECURSIVE StrLess(_, _)
StrLess(a, b) ==
  IF b = <<>> THEN FALSE
  ELSE IF a = <<>> THEN TRUE
  ELSE IF Rank(Head(a)) # Rank(Head(b)) THEN Rank(Head(a)) < Rank(Head(b))
  ELSE StrLess(Tail(a), Tail(b))

\* the elements of a path between its separators, empty ones included
RECURSIVE Split(_)
Split(s) ==
  LET i == LastSlash(s)
  IN  IF i = -1 THEN <<s>> ELSE Append(Split(Take(s, i)), Drop(s, i + 1))

\* strings.Join(elems, "/")
RECURSIVE JoinSlash(_)
JoinSlash(elems) ==
  IF elems = <<>> THEN <<>>
  ELSE IF Len(elems) = 1 THEN elems[1]
  ELSE elems[1] \o <<Slash>> \o JoinSlash(Tail(elems))

DotDot == <<Dot, Dot>>

\* one element of path.Clean's scan: "" and "." are dropped, ".." backtracks
\* over the last kept element, is dropped at the root, and is kept at the
\* start of a relative path
CleanStep(out, elem, rooted) ==
  IF elem = <<>> \/ elem = <<Dot>> THEN out
  ELSE IF elem = DotDot
       THEN IF Len(out) > 0 /\ out[Len(out)] # DotDot THEN Take(out, Len(out) - 1)
            ELSE IF rooted THEN out
            ELSE Append(out, DotDot)
  ELSE Append(out, elem)

RECURSIVE CleanScan(_, _, _)
CleanScan(out, elems, rooted) ==
  IF elems = <<>> THEN out
  ELSE CleanScan(CleanStep(out, Head(elems), rooted), Tail(elems), rooted)

\* path.Clean
Clean(p) ==
  IF p = <<>> THEN <<Dot>>
  ELSE LET rooted == p[1] = Slash
           out == JoinSlash(CleanScan(<<>>, Split(p), rooted))
       IN  IF rooted THEN <<Slash>> \o out
           ELSE IF out = <<>> THEN <<Dot>> ELSE out

\* path.Dir: everything up to the last separator, cleaned
Dir(p) == Clean(Take(p, LastSlash(p) + 1))

RECURSIVE StripSlashes(_)
StripSlashes(p) ==
  IF Len(p) > 0 /\ p[Len(p)] = Slash THEN StripSlashes(Take(p, Len(p) - 1)) ELSE p

\* path.Base: the last element, trailing separators removed first
Base(p) ==
  IF p = <<>> THEN <<Dot>>
  ELSE LET q == StripSlashes(p)
           r == Drop(q, LastSlash(q) + 1)
       IN  IF r = <<>> THEN <<Slash>> ELSE r

\* path.Join of two elements: empty elements are ignored, the rest cleaned
Join(a, b) ==
  IF a = <<>> /\ b = <<>> THEN <<>>
  ELSE IF a = <<>> THEN Clean(b)
  ELSE IF b = <<>> THEN Clean(a)
  ELSE Clean(a \o <<Slash>> \o b)

\* strings.Replace(name, "//", "/", -1): one left-to-right pass over
\* non-overlapping occurrences
RECURSIVE ReplaceDoubleSlash(_)
ReplaceDoubleSlash(s) ==
  IF Len(s) < 2 THEN s
  ELSE IF s[1] = Slash /\ s[2] = Slash THEN <<Slash>> \o ReplaceDoubleSlash(Drop(s, 2))
  ELSE <<s[1]>> \o ReplaceDoubleSlash(Tail(s))

\* insertion of x into a sorted sequence, after the elements not above it
RECURSIVE Insert(_, _)
Insert(s, x) ==
  IF s = <<>> THEN <<x>>
  ELSE IF StrLess(x, Head(s)) THEN <<x>> \o s
  ELSE <<Head(s)>> \o Insert(Tail(s), x)

\* sort.Strings
RECURSIVE SortStrings(_)
SortStrings(s) ==
  IF s = <<>> THEN <<>> ELSE Insert(SortStrings(Tail(s)), Head(s))


(***************************************************************************)
(* The registered archive.  A zip record carries its name, whether its     *)
(* header mode has the directory bit set, its content, and whether its     *)
(* member decompresses.                                                    *)
(***************************************************************************)
Rec(name, dir, data, bad) == [name |-> name, dir |-> dir, data |-> data, bad |-> bad]

\* the index document the doc comment of Open speaks of (fs.go:122)
IndexHTML == <<"i", "n", "d", "e", "x", ".", "h", "t", "m", "l">>

\* the records archives are drawn from: plain files, a directory record with
\* and without a trailing separator, a doubled separator, a "." element, an
\* empty file, a member that fails to decompress, and an index document in
\* a directory
Records ==
  { Rec(<<"a">>, FALSE, <<1, 2>>, FALSE),
    Rec(<<"a">>, TRUE, <<>>, FALSE),
    Rec(<<"b">>, FALSE, <<3>>, FALSE),
    Rec(<<"b">>, FALSE, <<3>>, TRUE),
    Rec(<<"c">>, FALSE, <<>>, FALSE),
    Rec(<<"a", "/", "b">>, FALSE, <<4, 5, 6>>, FALSE),
    Rec(<<"a", "/">>, FALSE, <<>>, FALSE),
    Rec(<<"a", "/", "/", "b">>, FALSE, <<7>>, FALSE),
    Rec(<<".", "/", "a">>, FALSE, <<8>>, FALSE),
    Rec(<<"a", "/">> \o IndexHTML, FALSE, <<9>>, FALSE) }

\* the archives: at most MaxRecords records.  Two records of one name would
\* overwrite each other in Files (fs.go:73), so names are kept distinct.
Archives ==
  { A \in SUBSET Records :
      /\ Cardinality(A) <= MaxRecords
      /\ \A r1, r2 \in A : r1.name = r2.name => r1 = r2 }

\* what Register can be handed: the empty string, bytes that are no zip
\* archive, or a zip archive
ZipInputs ==
  {[kind |-> "empty"], [kind |-> "corrupt"]} \cup {[kind |-> "zip", recs |-> A] : A \in Archives}

\* the paths Open is called with
OpenNames ==
  { <<"/">>,
    <<"/", "a">>,
    <<"/", "a", "/">>,
    <<"/", "b">>,
    <<"/", "c">>,
    <<"/", "a", "/", "b">>,
    <<"/", "a", "/", "/", "b">>,
    <<"/", "a", "/", "/", "/", "b">>,
    <<"/", "/", "a">>,
    <<"/", ".", "/", "a">>,
    <<"/", "a", "/">> \o IndexHTML }

(***************************************************************************)
(* File, os.FileInfo and StaticalFS.                                       *)
(***************************************************************************)
\* the nil os.FileInfo of a zero File
NilInfo == [kind |-> "nil"]

\* zipFile.FileInfo(): the header's mode has the directory bit when the
\* header says so or when the name ends in a separator
ZipInfo(r) ==
  [kind |-> "zip", name |-> r.name,
   dir |-> r.dir \/ (Len(r.name) > 0 /\ r.name[Len(r.name)] = Slash),
   size |-> Len(r.data)]

\* dirInfo{dn}
DirInfo(dn) == [kind |-> "dirInfo", name |-> dn]

\* FileInfo.IsDir()
InfoIsDir(fi) ==
  CASE fi.kind = "dirInfo" -> TRUE
    [] fi.kind = "zip" -> fi.dir
    [] OTHER -> FALSE

\* FileInfo.Name()
InfoName(fi) ==
  CASE fi.kind = "dirInfo" -> Base(fi.name)
    [] fi.kind = "zip" -> Base(fi.name)
    [] OTHER -> <<>>

\* File{FileInfo: fi, Data: data}; Fs is the one tree New returned
File(fi, data) == [FileInfo |-> fi, Data |-> data]

\* the zero File a map lookup of a missing key yields
ZeroFile == File(NilInfo, <<>>)

\* files[k] with Go's map semantics
Lookup(files, k) == IF k \in DOMAIN files THEN files[k] ELSE ZeroFile

\* files[k] = f
Put(files, k, f) == [x \in DOMAIN files \cup {k} |-> IF x = k THEN f ELSE files[x]]

NoFS == [built |-> FALSE, Files |-> <<>>, Dirs |-> <<>>]

(***************************************************************************)
(* State.                                                                  *)
(***************************************************************************)
VARIABLES
  ZipData,     \* the package variable ZipData
  registered,  \* history: Register has been called
  fs,          \* the *StaticalFS New returned, NoFS before
  handles,     \* the httpFiles Open returned, in the order they were opened
  ret,         \* what the last call returned
  fault        \* a call ended in a runtime panic

vars == <<ZipData, registered, fs, handles, ret, fault>>

(***************************************************************************)
(* New: unpacking, directory synthesis, index construction.                *)
(***************************************************************************)
\* fs.go:66-74: every record is stored under "/" + its name
Unpacked(recs) ==
  [k \in {<<Slash>> \o r.name : r \in recs} |->
     LET r == CHOOSE r \in recs : <<Slash>> \o r.name = k
     IN  File(ZipInfo(r), r.data)]

\* the walk without its stop at the first ancestor that is present: every
\* ancestor up to the root is given a dirInfo, present or not
RECURSIVE WalkUpToRoot(_, _, _)
WalkUpToRoot(files, fn, dn) ==
  IF dn = fn THEN files
  ELSE WalkUpToRoot(Put(files, dn, File(DirInfo(dn), <<>>)), dn, Dir(dn))

\* fs.go:77-84: the walk from fn up its ancestors, inserting a dirInfo for
\* each missing one and stopping at the first one present or at the root
RECURSIVE WalkUp(_, _, _)
WalkUp(files, fn, dn) ==
  IF dn = fn THEN files
  ELSE IF dn \notin DOMAIN files
       THEN WalkUp(Put(files, dn, File(DirInfo(dn), <<>>)), dn, Dir(dn))
  ELSE files

\* fs.go:75-85: the range over files, visiting the keys in the given order
RECURSIVE Synthesize(_, _)
Synthesize(files, order) ==
  IF order = <<>> THEN files
  ELSE Synthesize(WalkUp(files, Head(order), Dir(Head(order))), Tail(order))

\* dirs[dn] with Go's map semantics
Children(dirs, dn) == IF dn \in DOMAIN dirs THEN dirs[dn] ELSE <<>>

\* fs.go:86-91: the range over files that appends each base name to its
\* parent's list, visiting the keys in the given order
RECURSIVE Index(_, _)
Index(dirs, order) ==
  IF order = <<>> THEN dirs
  ELSE LET fn == Head(order)
           dn == Dir(fn)
           rest == Tail(order)
       IN  IF fn # dn
           THEN Index([d \in DOMAIN dirs \cup {dn} |->
                         IF d = dn THEN Append(Children(dirs, dn), Base(fn)) ELSE dirs[d]],
                      rest)
           ELSE Index(dirs, rest)

\* New without the sort of fs.go:92-94: the children stay in the order the
\* index loop met them
SortDirsNone(dirs) == dirs

\* fs.go:92-94
SortDirs(dirs) == [d \in DOMAIN dirs |-> SortStrings(dirs[d])]

\* the orders a range over a map with the keys S can take
Perms(S) ==
  {o \in [1..Cardinality(S) -> S] : \A i, j \in 1..Cardinality(S) : o[i] = o[j] => i = j}

\* the keys of S in ascending order
RECURSIVE Ascending(_)
Ascending(S) ==
  IF S = {} THEN <<>>
  ELSE LET m == CHOOSE x \in S : \A y \in S : ~StrLess(y, x)
       IN  <<m>> \o Ascending(S \ {m})

Reverse(s) == [i \in 1..Len(s) |-> s[Len(s) + 1 - i]]

\* fs.go:63-95 on an archive whose members all decompress.  order is the
\* order the first range visits the unpacked keys in; with revisit it also
\* visits the keys inserted meanwhile, as a range over a growing map may.
\* The second range visits the keys in ascending or in descending order.
Build(recs, order, revisit, descending) ==
  LET unpacked == Unpacked(recs)
      walked == Synthesize(unpacked, order)
      files == IF revisit
               THEN Synthesize(walked, Ascending(DOMAIN walked \ DOMAIN unpacked))
               ELSE walked
      keys == IF descending THEN Reverse(Ascending(DOMAIN files)) ELSE Ascending(DOMAIN files)
  IN  [built |-> TRUE, Files |-> files, Dirs |-> SortDirs(Index(<<>>, keys))]

(***************************************************************************)
(* Register and New.                                                       *)
(***************************************************************************)
Init ==
  /\ ZipData = [kind |-> "empty"]
  /\ registered = FALSE
  /\ fs = NoFS
  /\ handles = <<>>
  /\ ret = [op |-> "none"]
  /\ fault = FALSE

\* fs.go:49-51.  The archive is registered at process start, before the
\* tree is built.
Register(data) ==
  /\ ~fs.built
  /\ ZipData' = data
  /\ registered' = TRUE
  /\ ret' = [op |-> "Register"]
  /\ UNCHANGED <<fs, handles, fault>>

\* New without the check of fs.go:56: the empty string goes to the zip reader,
\* which refuses it
NewResultNoEmptyCheck(zip, order, revisit, descending) ==
  IF zip.kind # "zip"
  THEN [tree |-> NoFS, r |-> [op |-> "New", err |-> "CorruptArchive"]]
  ELSE [tree |-> Build(zip.recs, order, revisit, descending), r |-> [op |-> "New", err |-> "nil"]]

\* fs.go:55-96
NewResult(zip, order, revisit, descending) ==
  IF zip.kind = "empty"
  THEN [tree |-> NoFS, r |-> [op |-> "New", err |-> "NotConfigured"]]
  ELSE IF zip.kind = "corrupt"
  THEN [tree |-> NoFS, r |-> [op |-> "New", err |-> "CorruptArchive"]]
  ELSE [tree |-> Build(zip.recs, order, revisit, descending), r |-> [op |-> "New", err |-> "nil"]]

\* New skipping a member that fails to decompress instead of returning: the
\* tree is built from the members that do decompress
NewExtractionSkipped ==
  /\ ~fs.built
  /\ ZipData.kind = "zip"
  /\ \E r \in ZipData.recs : r.bad
  /\ LET good == {r \in ZipData.recs : ~r.bad}
     IN  /\ fs' = Build(good, Ascending({<<Slash>> \o r.name : r \in good}), FALSE, FALSE)
         /\ ret' = [op |-> "New", err |-> "nil"]
  /\ UNCHANGED <<ZipData, registered, handles, fault>>

\* fs.go:69-72: a member that fails to decompress ends New with an error
\* naming it; which one is met first depends on the archive's order
NewExtractionFailed ==
  /\ ~fs.built
  /\ ZipData.kind = "zip"
  /\ \E r \in ZipData.recs :
       /\ r.bad
       /\ ret' = [op |-> "New", err |-> "ExtractionFailed", name |-> r.name]
  /\ UNCHANGED <<ZipData, registered, fs, handles, fault>>

New ==
  /\ ~fs.built
  /\ ZipData.kind = "zip" => \A r \in ZipData.recs : ~r.bad
  /\ \E revisit \in BOOLEAN, descending \in BOOLEAN :
       \E order \in (IF ZipData.kind = "zip"
                     THEN Perms({<<Slash>> \o r.name : r \in ZipData.recs})
                     ELSE {<<>>}) :
         LET res == NewResult(ZipData, order, revisit, descending)
         IN  /\ fs' = res.tree
             /\ ret' = res.r
  /\ UNCHANGED <<ZipData, registered, handles, fault>>

(***************************************************************************)
(* Open and the httpFile methods.                                          *)
(***************************************************************************)
\* newHTTPFile without the IsDir branch: every entry gets a reader
newHTTPFileNoDir(file) ==
  [File |-> file, isDir |-> FALSE, reader |-> [nil |-> FALSE, i |-> 0],
   dirIdx |-> 0, got |-> <<>>, seeked |-> FALSE]

\* fs.go:132-137.  reader is the *bytes.Reader over file.Data (nil for a
\* directory) with its offset i.  got and seeked are history: the bytes Read
\* has returned since Open, kept until the first Seek.
newHTTPFile(file) ==
  IF InfoIsDir(file.FileInfo)
  THEN [File |-> file, isDir |-> TRUE, reader |-> [nil |-> TRUE, i |-> 0],
        dirIdx |-> 0, got |-> <<>>, seeked |-> FALSE]
  ELSE [File |-> file, isDir |-> FALSE, reader |-> [nil |-> FALSE, i |-> 0],
        dirIdx |-> 0, got |-> <<>>, seeked |-> FALSE]

\* Open without the replacement of fs.go:125
NormalizedNone(name) == name

\* fs.go:125: the name Open looks up
Normalized(name) == ReplaceDoubleSlash(name)

\* Open serving the index document of a directory in the directory's place,
\* as the comment of fs.go:122 has it
OpenResultIndexDocument(tree, name) ==
  LET n == Normalized(name)
      index == Join(n, IndexHTML)
  IN  IF n \in DOMAIN tree.Files
      THEN IF InfoIsDir(tree.Files[n].FileInfo) /\ index \in DOMAIN tree.Files
           THEN [ok |-> TRUE, h |-> newHTTPFile(tree.Files[index])]
           ELSE [ok |-> TRUE, h |-> newHTTPFile(tree.Files[n])]
      ELSE [ok |-> FALSE, h |-> newHTTPFile(ZeroFile)]

\* fs.go:124-130: the handle and the error Open returns
OpenResult(tree, name) ==
  LET n == Normalized(name)
  IN  IF n \in DOMAIN tree.Files
      THEN [ok |-> TRUE, h |-> newHTTPFile(tree.Files[n])]
      ELSE [ok |-> FALSE, h |-> newHTTPFile(ZeroFile)]

Open(name) ==
  /\ fs.built
  /\ ~fault
  /\ LET res == OpenResult(fs, name)
     IN  IF res.ok
         THEN /\ Len(handles) < MaxHandles
              /\ handles' = Append(handles, res.h)
              /\ ret' = [op |-> "Open", name |-> name, err |-> "nil", h |-> Len(handles) + 1]
         ELSE /\ handles' = handles
              /\ ret' = [op |-> "Open", name |-> name, err |-> "NotExist", h |-> 0]
  /\ UNCHANGED <<ZipData, registered, fs, fault>>

\* fs.go:150-155, with bytes.Reader.Read: at or past the end it returns
\* 0, io.EOF; otherwise it copies min(n, remaining) bytes and advances
ReadResult(f, n) ==
  IF f.reader.nil /\ f.isDir
  THEN [f |-> f, data |-> <<>>, err |-> "EOF"]
  ELSE LET s == f.File.Data
           i == f.reader.i
       IN  IF i >= Len(s)
           THEN [f |-> f, data |-> <<>>, err |-> "EOF"]
           ELSE LET m == IF n < Len(s) - i THEN n ELSE Len(s) - i
                    chunk == SubSeq(s, i + 1, i + m)
                IN  [f |-> [f EXCEPT !.reader.i = i + m,
                                     !.got = IF f.seeked THEN <<>> ELSE f.got \o chunk],
                     data |-> chunk, err |-> "nil"]

\* Read taking the bytes it returns out of the entry in the tree, so that a
\* second handle on the entry no longer finds them
ReadConsuming(h, n) ==
  /\ ~fault
  /\ h \in DOMAIN handles
  /\ LET res == ReadResult(handles[h], n)
         rest == Drop(handles[h].File.Data, Len(res.data))
     IN  /\ handles' = [handles EXCEPT ![h] = res.f]
         /\ ret' = [op |-> "Read", h |-> h, arg |-> n, data |-> res.data, err |-> res.err]
         /\ fs' = [fs EXCEPT !.Files =
                     [p \in DOMAIN fs.Files |->
                        IF fs.Files[p] = handles[h].File
                        THEN [fs.Files[p] EXCEPT !.Data = rest]
                        ELSE fs.Files[p]]]
  /\ UNCHANGED <<ZipData, registered, fault>>

Read(h, n) ==
  /\ ~fault
  /\ h \in DOMAIN handles
  /\ LET res == ReadResult(handles[h], n)
     IN  /\ handles' = [handles EXCEPT ![h] = res.f]
         /\ ret' = [op |-> "Read", h |-> h, arg |-> n, data |-> res.data, err |-> res.err]
  /\ UNCHANGED <<ZipData, registered, fs, fault>>

\* bytes.Reader.Seek: the new offset, or -1 for an invalid whence, or -2
\* for a negative position
SeekTarget(f, offset, whence) ==
  LET abs == CASE whence = 0 -> offset
               [] whence = 1 -> f.reader.i + offset
               [] whence = 2 -> Len(f.File.Data) + offset
               [] OTHER -> -1
  IN  IF whence \notin {0, 1, 2} THEN -1
      ELSE IF abs < 0 THEN -2
      ELSE abs

\* fs.go:158-160 on a handle that has a reader
Seek(h, offset, whence) ==
  /\ ~fault
  /\ h \in DOMAIN handles
  /\ ~handles[h].reader.nil
  /\ LET abs == SeekTarget(handles[h], offset, whence)
     IN  /\ abs <= Len(handles[h].File.Data) + MaxOffset
         /\ IF abs >= 0
            THEN /\ handles' = [handles EXCEPT ![h].reader.i = abs, ![h].seeked = TRUE,
                                               ![h].got = <<>>]
                 /\ ret' = [op |-> "Seek", h |-> h, pos |-> abs, err |-> "nil"]
            ELSE /\ handles' = handles
                 /\ ret' = [op |-> "Seek", h |-> h, pos |-> 0,
                            err |-> IF abs = -1 THEN "invalid whence" ELSE "negative position"]
  /\ UNCHANGED <<ZipData, registered, fs, fault>>

\* fs.go:158-160 on a directory handle: f.reader is nil and
\* (*bytes.Reader).Seek writes through it, a nil pointer dereference
SeekNilReader(h) ==
  /\ ~fault
  /\ h \in DOMAIN handles
  /\ handles[h].reader.nil
  /\ fault' = TRUE
  /\ ret' = [op |-> "Seek", h |-> h, pos |-> 0, err |-> "panic"]
  /\ UNCHANGED <<ZipData, registered, fs, handles>>

\* fs.go:163-165, 168-170: the handle itself, whose IsDir is f.isDir
Stat(h) ==
  /\ ~fault
  /\ h \in DOMAIN handles
  /\ ret' = [op |-> "Stat", h |-> h, name |-> InfoName(handles[h].File.FileInfo),
             isDir |-> handles[h].isDir, err |-> "nil"]
  /\ UNCHANGED <<ZipData, registered, fs, handles, fault>>

\* Readdir advancing its cursor by the count asked for instead of by the
\* number of entries returned
ReaddirResultByCount(tree, f, count) ==
  IF ~f.isDir
  THEN [f |-> f, fis |-> <<>>, err |-> "nil"]
  ELSE IF f.File.FileInfo.kind # "dirInfo"
  THEN [f |-> f, fis |-> <<>>, err |-> "failed to read directory"]
  ELSE LET name == f.File.FileInfo.name
           fnames == Children(tree.Dirs, name)
           flen == Len(fnames)
           start == f.dirIdx
       IN  IF start >= flen /\ count > 0
           THEN [f |-> f, fis |-> <<>>, err |-> "EOF"]
           ELSE LET end0 == IF count < 0 THEN flen ELSE start + count
                    end == IF end0 > flen THEN flen ELSE end0
                    fis == [i \in 1..(end - start) |->
                              Lookup(tree.Files, Join(name, fnames[start + i])).FileInfo]
                IN  [f |-> [f EXCEPT !.dirIdx = end0], fis |-> fis, err |-> "nil"]

\* fs.go:174-212
ReaddirResult(tree, f, count) ==
  IF ~f.isDir
  THEN [f |-> f, fis |-> <<>>, err |-> "nil"]
  ELSE IF f.File.FileInfo.kind # "dirInfo"
  THEN [f |-> f, fis |-> <<>>, err |-> "failed to read directory"]
  ELSE LET name == f.File.FileInfo.name
           fnames == Children(tree.Dirs, name)
           flen == Len(fnames)
           start == f.dirIdx
       IN  IF start >= flen /\ count > 0
           THEN [f |-> f, fis |-> <<>>, err |-> "EOF"]
           ELSE LET end0 == IF count < 0 THEN flen ELSE start + count
                    end == IF end0 > flen THEN flen ELSE end0
                    fis == [i \in 1..(end - start) |->
                              Lookup(tree.Files, Join(name, fnames[start + i])).FileInfo]
                IN  [f |-> [f EXCEPT !.dirIdx = f.dirIdx + Len(fis)], fis |-> fis, err |-> "nil"]

\* Readdir with the cursor kept per directory instead of per handle: every
\* handle on the same entry moves with the one that read
ReaddirSharedCursor(h, count) ==
  /\ ~fault
  /\ h \in DOMAIN handles
  /\ LET res == ReaddirResult(fs, handles[h], count)
     IN  /\ handles' = [g \in DOMAIN handles |->
                          IF g = h THEN res.f
                          ELSE IF handles[g].File = handles[h].File
                          THEN [handles[g] EXCEPT !.dirIdx = res.f.dirIdx]
                          ELSE handles[g]]
         /\ ret' = [op |-> "Readdir", h |-> h, arg |-> count, fis |-> res.fis, err |-> res.err]
  /\ UNCHANGED <<ZipData, registered, fs, fault>>

Readdir(h, count) ==
  /\ ~fault
  /\ h \in DOMAIN handles
  /\ LET res == ReaddirResult(fs, handles[h], count)
     IN  /\ handles' = [handles EXCEPT ![h] = res.f]
         /\ ret' = [op |-> "Readdir", h |-> h, arg |-> count, fis |-> res.fis, err |-> res.err]
  /\ UNCHANGED <<ZipData, registered, fs, fault>>

\* fs.go:214-216
Close(h) ==
  /\ ~fault
  /\ h \in DOMAIN handles
  /\ ret' = [op |-> "Close", h |-> h, err |-> "nil"]
  /\ UNCHANGED <<ZipData, registered, fs, handles, fault>>

Handles == 1..MaxHandles
ReadSizes == 0..MaxCount
Counts == (-1)..MaxCount
Offsets == (-MaxOffset)..MaxOffset
Whences == 0..3

\* the tree's construction and lookup: Register, New and Open
NextOpen ==
  \/ \E data \in ZipInputs : Register(data)
  \/ New
  \/ NewExtractionFailed
  \/ \E name \in OpenNames : Open(name)

SpecOpen == Init /\ [][NextOpen]_vars

\* construction, lookup, and reading and enumerating through the handles
Next ==
  \/ NextOpen
  \/ \E h \in Handles, n \in ReadSizes : Read(h, n)
  \/ \E h \in Handles, count \in Counts : Readdir(h, count)

Spec == Init /\ [][Next]_vars

\* the whole capability set of a handle: Seek, Stat and Close as well
NextAll ==
  \/ Next
  \/ \E h \in Handles, offset \in Offsets, whence \in Whences : Seek(h, offset, whence)
  \/ \E h \in Handles : SeekNilReader(h)
  \/ \E h \in Handles : Stat(h)
  \/ \E h \in Handles : Close(h)

SpecAll == Init /\ [][NextAll]_vars

(***************************************************************************)
(* Vocabulary of the properties.                                           *)
(***************************************************************************)
Root == <<Slash>>

\* the keys of the tree's entries
Paths(tree) == DOMAIN tree.Files

\* the entry at p is marked as a directory
IsDirEntry(tree, p) == p \in Paths(tree) /\ InfoIsDir(tree.Files[p].FileInfo)

\* the key an archive record is stored under
KeyOf(r) == <<Slash>> \o r.name

\* the path of the directory a directory handle is open on
DirPathOf(f) ==
  IF f.File.FileInfo.kind = "dirInfo" THEN f.File.FileInfo.name
  ELSE <<Slash>> \o f.File.FileInfo.name

\* the metadata of the children number from+1 .. to of directory d
ChildInfos(tree, d, from, to) ==
  [i \in 1..(to - from) |-> Lookup(tree.Files, Join(d, Children(tree.Dirs, d)[from + i])).FileInfo]

StrictlySorted(s) == \A i \in 1..(Len(s) - 1) : StrLess(s[i], s[i + 1])

SeqRange(s) == {s[i] : i \in 1..Len(s)}

Min(a, b) == IF a < b THEN a ELSE b

\* the paths obtained from p by doubling one of its separators
Doubled(p) == {Take(p, i) \o <<Slash>> \o Drop(p, i) : i \in {j \in 1..Len(p) : p[j] = Slash}}

HasDoubledSeparator(p) == \E i \in 1..(Len(p) - 1) : p[i] = Slash /\ p[i + 1] = Slash

(***************************************************************************)
(* C1.  After New has built the tree, every non-root path in entries has   *)
(* its parent path (path.Dir) in entries too, and that parent entry is     *)
(* marked as a directory.                                                  *)
(***************************************************************************)
C1_ParentIsDirectory ==
  fs.built =>
    \A p \in Paths(fs) : p # Root => IsDirEntry(fs, Dir(p))

(***************************************************************************)
(* C2.  In every built tree, for every directory d, children[d] is         *)
(* strictly sorted (so without duplicates) and holds exactly the base      *)
(* names of the entries whose parent path is d.                            *)
(***************************************************************************)
C2_ChildrenSortedExact ==
  fs.built =>
    \A d \in Paths(fs) :
      IsDirEntry(fs, d) =>
        /\ StrictlySorted(Children(fs.Dirs, d))
        /\ SeqRange(Children(fs.Dirs, d)) = {Base(p) : p \in {q \in Paths(fs) : q # Root /\ Dir(q) = d}}

(***************************************************************************)
(* C3.  On a directory handle at any cursor position, readdir with count   *)
(* <= 0 (zero as well as negative) returns exactly the children from the   *)
(* cursor to the end, in sorted order, and leaves the cursor at the end; a *)
(* readdir with count <= 0 that follows at once returns an empty sequence. *)
(***************************************************************************)
C3_ReaddirAllRemaining ==
  [][\A h \in Handles, c \in Counts :
       (Readdir(h, c) /\ c <= 0 /\ handles[h].isDir) =>
         LET d == DirPathOf(handles[h])
             n == Len(Children(fs.Dirs, d))
         IN  /\ ret'.err = "nil"
             /\ ret'.fis = ChildInfos(fs, d, handles[h].dirIdx, n)
             /\ handles'[h].dirIdx = n
             /\ \A c2 \in Counts :
                  c2 <= 0 => /\ ReaddirResult(fs, handles'[h], c2).fis = <<>>
                             /\ ReaddirResult(fs, handles'[h], c2).err = "nil"]_vars

(***************************************************************************)
(* C4.  On a directory handle with the sorted children c[0..n-1], a        *)
(* readdir with a positive count k that starts at cursor i < n returns     *)
(* exactly c[i .. min(i+k, n)-1] and advances the cursor by the number     *)
(* returned, so that the pages read since Open are, joined, a prefix of    *)
(* the listing with no child skipped or repeated.                          *)
(***************************************************************************)
C4_ReaddirPages ==
  [][\A h \in Handles, k \in Counts :
       LET d == DirPathOf(handles[h])
           n == Len(Children(fs.Dirs, d))
           i == handles[h].dirIdx
       IN  (Readdir(h, k) /\ k > 0 /\ handles[h].isDir /\ i < n) =>
             /\ ret'.err = "nil"
             /\ ret'.fis = ChildInfos(fs, d, i, Min(i + k, n))
             /\ handles'[h].dirIdx = i + Len(ret'.fis)]_vars

(***************************************************************************)
(* C5.  readdir on a directory handle returns io.EOF if and only if count  *)
(* > 0 and the cursor is at or past the end of the children; then the      *)
(* result is empty and the cursor unchanged.  A call with count > 0 never  *)
(* returns an empty sequence without an error, and a call with count <= 0  *)
(* never returns io.EOF.                                                   *)
(***************************************************************************)
C5_EndOfDirectory ==
  [][\A h \in Handles, c \in Counts :
       LET d == DirPathOf(handles[h])
           n == Len(Children(fs.Dirs, d))
           i == handles[h].dirIdx
       IN  (Readdir(h, c) /\ handles[h].isDir) =>
             /\ (ret'.err = "EOF") <=> (c > 0 /\ i >= n)
             /\ ret'.err = "EOF" => (ret'.fis = <<>> /\ handles'[h].dirIdx = i)
             /\ c > 0 => ~(ret'.fis = <<>> /\ ret'.err = "nil")
             /\ c <= 0 => ret'.err # "EOF"]_vars

(***************************************************************************)
(* C6.  For every regular-file record registered at path p with content C, *)
(* Open(p) returns a handle whose read offset is zero; reading it with any *)
(* chunk sizes returns the bytes of C in order, all of C once end-of-data  *)
(* is reported; and a Read on one handle leaves every other handle's       *)
(* offset alone.                                                           *)
(***************************************************************************)
C6_FileRoundTrip ==
  [][/\ \A r \in (IF ZipData.kind = "zip" THEN ZipData.recs ELSE {}) :
          (Open(KeyOf(r)) /\ ~ZipInfo(r).dir) =>
            /\ ret'.err = "nil"
            /\ ~handles'[ret'.h].isDir
            /\ handles'[ret'.h].File.Data = r.data
            /\ handles'[ret'.h].reader.i = 0
     /\ \A h \in Handles, n \in ReadSizes :
          (Read(h, n) /\ ~handles[h].isDir /\ ~handles[h].seeked) =>
            LET C == handles[h].File.Data
                i == handles[h].reader.i
            IN  /\ ret'.data = SubSeq(C, i + 1, Min(i + n, Len(C)))
                /\ handles'[h].got = Take(C, handles'[h].reader.i)
                /\ ret'.err = "EOF" => handles'[h].got = C
                /\ \A g \in DOMAIN handles : g # h => handles'[g] = handles[g]]_vars

C8_DoubledSeparatorAnyPath ==
  fs.built =>
    \A p \in OpenNames : \A q \in Doubled(p) : OpenResult(fs, q) = OpenResult(fs, p)

(***************************************************************************)
(* C8 as amended.  For every path p that holds no doubled separator and    *)
(* every q obtained from p by doubling one separator, Open(q) behaves as   *)
(* Open(p).                                                                *)
(***************************************************************************)
C8_DoubledSeparator ==
  fs.built =>
    \A p \in OpenNames :
      ~HasDoubledSeparator(p) => \A q \in Doubled(p) : OpenResult(fs, q) = OpenResult(fs, p)

\* Open was called with a path that doubles one separator of the key of an
\* entry, and found the entry
C8_Witness ==
  /\ ret.op = "Open"
  /\ ret.err = "nil"
  /\ \E p \in Paths(fs) :
       /\ ~HasDoubledSeparator(p)
       /\ ret.name \in Doubled(p)
       /\ handles[ret.h].File = fs.Files[p]

(***************************************************************************)
(* C9.  A New call that no Register call precedes fails with the           *)
(* "no zip data registered" error and returns no tree.                     *)
(***************************************************************************)
C9_NewBeforeRegister ==
  (ret.op = "New" /\ ~registered) => (ret.err = "NotConfigured" /\ ~fs.built)

\* New has been called before any Register
C9_Witness == ret.op = "New" /\ ~registered

(***************************************************************************)
(* C10.  Two handles opened on the same directory have independent         *)
(* cursors: a readdir on one leaves the other handle as it was, and what   *)
(* it returns and where it leaves its own cursor follow from its own       *)
(* cursor alone, whatever was read through the other handle.               *)
(***************************************************************************)
C10_IndependentCursors ==
  [][\A h \in Handles, c \in Counts :
       (Readdir(h, c) /\ handles[h].isDir) =>
         /\ \A g \in DOMAIN handles :
              (g # h /\ handles[g].File = handles[h].File) =>
                handles'[g] = handles[g]
         /\ LET alone == ReaddirResult(fs, newHTTPFile(handles[h].File), c)
                own == [newHTTPFile(handles[h].File) EXCEPT !.dirIdx = handles[h].dirIdx]
            IN  /\ handles[h].dirIdx = 0 => (ret'.fis = alone.fis /\ ret'.err = alone.err)
                /\ ret'.fis = ReaddirResult(fs, own, c).fis
                /\ ret'.err = ReaddirResult(fs, own, c).err
                /\ handles'[h] = ReaddirResult(fs, own, c).f]_vars

\* two handles on the same directory stand at different cursors after a
\* readdir
C10_Witness ==
  /\ ret.op = "Readdir"
  /\ \E g, h \in DOMAIN handles :
       /\ g # h
       /\ handles[g].isDir
       /\ handles[g].File = handles[h].File
       /\ handles[g].dirIdx # handles[h].dirIdx
       /\ handles[g].dirIdx > 0
       /\ handles[h].dirIdx > 0

C12_RootImplicit ==
  fs.built =>
    /\ IsDirEntry(fs, Root)
    /\ OpenResult(fs, Root).ok
    /\ OpenResult(fs, Root).h.isDir

(***************************************************************************)
(* C13.  When a record of the archive fails to decompress, New returns an  *)
(* error that names a record that fails, and no tree, whatever other       *)
(* records the archive holds; no tree, partial or whole, exists after such *)
(* a call.                                                                 *)
(***************************************************************************)
C13_ExtractionFailed ==
  /\ (ret.op = "New" /\ ZipData.kind = "zip" /\ \E r \in ZipData.recs : r.bad) =>
       /\ ret.err = "ExtractionFailed"
       /\ \E r \in ZipData.recs : r.bad /\ r.name = ret.name
       /\ fs = NoFS
  /\ (ret.op = "New" /\ ret.err # "nil") => fs = NoFS

\* New has failed on an archive that holds a record that decompresses and
\* one that does not
C13_Witness ==
  /\ ret.op = "New"
  /\ ret.err = "ExtractionFailed"
  /\ \E r \in ZipData.recs : ~r.bad
  /\ \E r \in ZipData.recs : r.bad /\ r.name = ret.name

(***************************************************************************)
(* C14.  In every built tree, for every directory d and every name c of    *)
(* children[d], the joined path d/c is a key of entries; so every element  *)
(* Readdir returns on a directory handle is the metadata of an entry,      *)
(* never the nil FileInfo of a missing one.                                *)
(***************************************************************************)
C14_ChildrenResolve ==
  /\ fs.built =>
       \A d \in DOMAIN fs.Dirs :
         \A i \in 1..Len(fs.Dirs[d]) : Join(d, fs.Dirs[d][i]) \in Paths(fs)
  /\ ret.op = "Readdir" =>
       \A i \in 1..Len(ret.fis) : ret.fis[i] # NilInfo

(***************************************************************************)
(* C15.  For every entry marked as a directory, synthesized by New or      *)
(* listed as a directory record of the archive, Open returns a directory   *)
(* handle with its cursor at zero; Readdir on it returns no error other    *)
(* than io.EOF, and Readdir(-1) returns the directory's children.          *)
(***************************************************************************)
C15_EveryDirectoryEnumerable ==
  fs.built =>
    \A d \in Paths(fs) :
      IsDirEntry(fs, d) =>
        LET res == OpenResult(fs, d)
        IN  /\ res.ok
            /\ res.h.isDir
            /\ res.h.dirIdx = 0
            /\ \A c \in Counts : ReaddirResult(fs, res.h, c).err \in {"nil", "EOF"}
            /\ Len(ReaddirResult(fs, res.h, -1).fis) = Len(Children(fs.Dirs, Clean(d)))

(***************************************************************************)
(* C16.  The tree is never changed after its construction: no Open, Read,  *)
(* Seek, Stat, Readdir or Close on any handle changes entries, children or *)
(* the content of an entry; of the handles only the read offset and the    *)
(* enumeration cursor change, and only those of the handle the call is     *)
(* made on.                                                                *)
(***************************************************************************)
C16_TreeImmutable ==
  [][fs.built =>
       /\ fs' = fs
       /\ \A g \in DOMAIN handles :
            /\ g \in DOMAIN handles'
            /\ handles'[g].File = handles[g].File
            /\ handles'[g].isDir = handles[g].isDir
            /\ handles'[g].reader.nil = handles[g].reader.nil
            /\ (ret'.op \in {"Open", "Stat", "Close"} \/ ret'.h # g) =>
                 (handles'[g].reader.i = handles[g].reader.i /\ handles'[g].dirIdx = handles[g].dirIdx)]_vars

\* a file has been read and sought and a directory enumerated, and the
\* handles were closed
C16_Witness ==
  /\ fs.built
  /\ ret.op = "Close"
  /\ \E g, h \in DOMAIN handles :
       /\ handles[g].isDir
       /\ handles[g].dirIdx > 0
       /\ ~handles[h].isDir
       /\ handles[h].seeked
       /\ handles[h].reader.i > 0

\* the chain Dir(p), Dir(Dir(p)), ... up to the path that is its own parent,
\* cut after fuel steps
RECURSIVE AncestorSeq(_, _)
AncestorSeq(p, fuel) ==
  IF Dir(p) = p \/ fuel = 0 THEN <<>>
  ELSE <<Dir(p)>> \o AncestorSeq(Dir(p), fuel - 1)

\* the ancestors of p a walk from p over files inserts: those before the
\* first one that is a key of files
MissingPrefix(files, p) ==
  LET chain == AncestorSeq(p, Len(p))
      present == {i \in 1..Len(chain) : chain[i] \in DOMAIN files}
      stop == IF present = {} THEN Len(chain) + 1
              ELSE CHOOSE i \in present : \A j \in present : i <= j
  IN  {chain[i] : i \in 1..(stop - 1)}

(***************************************************************************)
(* C17.  Directory synthesis terminates: from every path it visits the     *)
(* walk moves to a strictly shorter parent path, so a walk from a key k    *)
(* takes fewer than Len(k) steps; it stops at the first ancestor that is   *)
(* present or at the root, leaves the archive's own entries as unpacked,   *)
(* and what New adds are ancestors of archive paths, as directories.       *)
(***************************************************************************)
C17_SynthesisTerminates ==
  (fs.built /\ ZipData.kind = "zip") =>
    LET unpacked == Unpacked(ZipData.recs)
        keys == DOMAIN unpacked
    IN  /\ \A p \in Paths(fs) : Dir(p) # p => Len(Dir(p)) < Len(p)
        /\ \A p \in Paths(fs) : Dir(p) = p => p = Root
        /\ \A k \in keys :
             LET walked == WalkUp(unpacked, k, Dir(k))
             IN  /\ DOMAIN walked \ keys = MissingPrefix(unpacked, k)
                 /\ Cardinality(DOMAIN walked \ keys) < Len(k)
                 /\ \A q \in keys : walked[q] = unpacked[q]
        /\ \A k \in keys : k \in Paths(fs) /\ fs.Files[k] = unpacked[k]
        /\ \A p \in Paths(fs) \ keys :
             /\ \E k \in keys : \E i \in 1..Len(AncestorSeq(k, Len(k))) : AncestorSeq(k, Len(k))[i] = p
             /\ fs.Files[p] = File(DirInfo(p), <<>>)

\* New has built a tree from an archive in which one walk stops at an
\* ancestor listed in the archive and another goes up to the root
C17_Witness ==
  /\ fs.built
  /\ ret.op = "New"
  /\ Root \notin {KeyOf(r) : r \in ZipData.recs}
  /\ Root \in Paths(fs)
  /\ \E r1, r2 \in ZipData.recs : r1 # r2 /\ Dir(KeyOf(r1)) = KeyOf(r2)
  /\ \E r \in ZipData.recs : MissingPrefix(Unpacked(ZipData.recs), KeyOf(r)) # {}

(***************************************************************************)
(* C18.  The tree New builds does not depend on the order its loops visit  *)
(* the entries in: for the registered archive, every order of the          *)
(* synthesis loop over the archive's keys, with or without visits of the   *)
(* directories inserted meanwhile (a visit of an inserted directory, at    *)
(* whatever point of the loop, changes nothing), and every order of the    *)
(* index loop yield the same entries and the same sorted children.         *)
(***************************************************************************)
C18_OrderIndependent ==
  (fs.built /\ ret.op = "New") =>
    LET unpacked == Unpacked(ZipData.recs)
    IN  \A order \in Perms(DOMAIN unpacked) :
          /\ \A i \in 0..Len(order) :
               LET partial == Synthesize(unpacked, Take(order, i))
               IN  \A d \in DOMAIN partial \ DOMAIN unpacked :
                     WalkUp(partial, d, Dir(d)) = partial
          /\ \A revisit \in BOOLEAN, descending \in BOOLEAN :
               Build(ZipData.recs, order, revisit, descending) = fs
          /\ \A order2 \in Perms(Paths(fs)) :
               SortDirs(Index(<<>>, order2)) = fs.Dirs

\* New has built a tree from two records of which one lies below the other,
\* so that the walk from the lower one stops or goes on according to the
\* order, and a directory has two children
C18_Witness ==
  /\ fs.built
  /\ ret.op = "New"
  /\ \E r1, r2 \in ZipData.recs :
       /\ r1 # r2
       /\ Dir(KeyOf(r1)) = Dir(Dir(KeyOf(r2)))
       /\ Dir(KeyOf(r2)) \notin {KeyOf(r) : r \in ZipData.recs}
  /\ \E d \in DOMAIN fs.Dirs : Len(fs.Dirs[d]) >= 2

(***************************************************************************)
(* C19.  Through every Readdir on a directory handle, with a positive, a   *)
(* zero or a negative count, the cursor stays between 0 and the number of  *)
(* children of the directory, does not decrease, and grows by exactly the  *)
(* number of entries the call returned.                                    *)
(***************************************************************************)
C19_CursorBounds ==
  [][\A h \in Handles, c \in Counts :
       (Readdir(h, c) /\ handles[h].isDir) =>
         LET n == Len(Children(fs.Dirs, DirPathOf(handles[h])))
         IN  /\ 0 <= handles[h].dirIdx
             /\ handles[h].dirIdx <= n
             /\ 0 <= handles'[h].dirIdx
             /\ handles'[h].dirIdx <= n
             /\ handles'[h].dirIdx >= handles[h].dirIdx
             /\ handles'[h].dirIdx = handles[h].dirIdx + Len(ret'.fis)]_vars

\* a Readdir that asked for more than what was left has moved the cursor of
\* a directory with two children from inside the listing to its end
C19_Witness ==
  /\ ret.op = "Readdir"
  /\ ret.arg = MaxCount
  /\ Len(ret.fis) = 1
  /\ handles[ret.h].isDir
  /\ handles[ret.h].dirIdx = 2
  /\ Len(Children(fs.Dirs, DirPathOf(handles[ret.h]))) = 2

(***************************************************************************)
(* C20.  Every Read, Seek, Stat, Readdir and Close on a handle Open has    *)
(* returned, a directory handle included, ends with a result or an error   *)
(* value, never with a runtime panic; Seek on a directory handle does not  *)
(* go through a nil reader.                                                *)
(***************************************************************************)
C20_NoRuntimeFault ==
  /\ ~fault
  /\ ret.op \in {"Read", "Seek", "Stat", "Readdir", "Close"} => ret.err # "panic"

=============================================================================
